---- MODULE Spec2Model ----
(***************************************************************************)
(* Ten-pin bowling scoring engine (src/src/lib.rs): Frame, Game, roll(),   *)
(* set_next_indices() and score().                                         *)
(*                                                                         *)
(* Option<T> values are modelled as sequences: <<>> is None, <<v>> is      *)
(* Some(v).  Option<FrameBonusType> is one of the strings "None", "Spare", *)
(* "Strike".  Pin counts stay far below the i32 range (a game sums to at   *)
(* most a few hundred), so i32 arithmetic is modelled by Integers.         *)
(***************************************************************************)
EXTENDS Integers, Sequences, FiniteSets, TLC

\* ---------------------------------------------------------------- constants
\* frames: [Frame; 10]
NumFrames == 10

\* index of the tenth frame, `self.current_frame_index != 9`
LastFrame == 9

\* `pins == 10`, `pins + frame.first_roll_pins == 10`
AllPins == 10

\* the open frame the strike test opens with: roll(5); roll(3)
FillFirst == 5

FillSecond == 3

\* the spare the spare tests roll: roll(7); roll(3)
SpareFirst == 7

SpareSecond == 3

\* ------------------------------------------------------------------- bounds
\* number of rolls the caller makes with a freely chosen pin count
MaxFreeRolls == 3

\* pin counts the caller may pass to roll()
Pins == 0..AllPins

\* pin counts used by the caller that plays whole games of strikes and misses
StrikePins == {0, AllPins}

None == <<>>

Some(v) == <<v>>

\* -------------------------------------------------------------------- state
VARIABLES
    frames,                        \* Game.frames
    current_frame_index,           \* Game.current_frame_index
    current_roll_index,            \* Game.current_roll_index
    bonus_tenth_frame_third_roll,  \* Game.bonus_tenth_frame_third_roll
    panicked,                      \* a roll() call panicked (index out of bounds)
    rolls,                         \* caller: pin counts passed to roll() so far
    opening,                       \* caller: where it is in its fixed opening rolls
    free_rolls,                    \* caller: rolls made with a freely chosen pin count
    extra_rolls,                   \* caller: rolls made after the game was finished
    returned                       \* caller: value of the last score() call, if no roll() since

game == <<frames, current_frame_index, current_roll_index,
          bonus_tenth_frame_third_roll>>

vars == <<frames, current_frame_index, current_roll_index,
          bonus_tenth_frame_third_roll, panicked, rolls, opening,
          free_rolls, extra_rolls, returned>>

FrameIdx == 0..(NumFrames - 1)

\* a default frame that starts out tagged
DefaultFrame_tagged == [first_roll_pins |-> 0, second_roll_pins |-> None, bonus |-> "Strike"]

\* #[derive(Default)] struct Frame
DefaultFrame == [first_roll_pins |-> 0, second_roll_pins |-> None, bonus |-> "None"]

\* ------------------------------------------------------------ Frame scoring
\* rolls_score that forgets the second roll
rolls_score_first_only(frame) == frame.first_roll_pins

\* Frame::rolls_score
rolls_score(frame) ==
    IF frame.second_roll_pins = None
    THEN frame.first_roll_pins
    ELSE frame.first_roll_pins + frame.second_roll_pins[1]

\* Frame::score whose strike bonus adds the first roll only
FrameScore_strike_first_only(frame) ==
    LET base == rolls_score(frame) IN
    IF frame.bonus \in {"Spare", "Strike"} THEN base + frame.first_roll_pins ELSE base

\* impl Score for Frame
FrameScore(frame) ==
    LET base == rolls_score(frame) IN
    CASE frame.bonus = "Spare"  -> base + frame.first_roll_pins
      [] frame.bonus = "Strike" ->
            base + frame.first_roll_pins
                 + (IF frame.second_roll_pins # None
                    THEN frame.second_roll_pins[1] ELSE 0)
      [] OTHER -> base

RECURSIVE SumFrames(_, _)
\* the loop `for frame in self.frames { total_score += frame.score() }`
SumFrames(fs, n) ==
    IF n = 0 THEN 0 ELSE SumFrames(fs, n - 1) + FrameScore(fs[n - 1])

RECURSIVE ChainedStrikes(_, _)
\* the first roll of frame k + 2, added for every k < n where frames k and
\* k + 1 are both strikes
ChainedStrikes(fs, n) ==
    IF n = 0 THEN 0
    ELSE ChainedStrikes(fs, n - 1)
         + (IF /\ fs[n - 1].first_roll_pins = AllPins
               /\ fs[n].first_roll_pins = AllPins
            THEN fs[n + 1].first_roll_pins ELSE 0)

\* a Game::score that looks two frames ahead after consecutive strikes
ScoreOf_chained(fs, third) ==
    SumFrames(fs, NumFrames) + ChainedStrikes(fs, NumFrames - 2)
        + (IF third # None THEN third[1] ELSE 0)

\* impl Score for Game, as a function of the game's fields
ScoreOf(fs, third) ==
    SumFrames(fs, NumFrames) + (IF third # None THEN third[1] ELSE 0)

GameScore == ScoreOf(frames, bonus_tenth_frame_third_roll)

\* --------------------------------------------------------------- Game::roll
\* `let next_frame_index = if self.current_frame_index + 1 < 10 {..}`
next_frame_index(cfi) ==
    IF cfi + 1 < NumFrames THEN Some(cfi + 1) ELSE None

\* bonus detection that calls a spare only when the second roll alone is 10
RollBonus_spare_on_ten(frame, cri, pins) ==
    CASE cri = 0 -> IF pins = AllPins THEN "Strike" ELSE "None"
      [] cri = 1 -> IF pins = AllPins THEN "Spare" ELSE "None"
      [] OTHER   -> "None"

\* the `bonus` local computed by the match on current_roll_index
RollBonus(frame, cri, pins) ==
    CASE cri = 0 -> IF pins = AllPins THEN "Strike" ELSE "None"
      [] cri = 1 -> IF pins + frame.first_roll_pins = AllPins THEN "Spare" ELSE "None"
      [] OTHER   -> "None"

\* a write that stores the second roll over the first
WriteRoll_overwrite_first(frame, cri, pins) ==
    CASE cri \in {0, 1} -> [frame EXCEPT !.first_roll_pins = pins]
      [] OTHER -> frame

\* a write that stores the fill ball as the frame's second roll
WriteRoll_fill_into_second(frame, cri, pins) ==
    CASE cri = 0 -> [frame EXCEPT !.first_roll_pins = pins]
      [] OTHER   -> [frame EXCEPT !.second_roll_pins = Some(pins)]

\* the write to the current frame made by the match on current_roll_index
WriteRoll(frame, cri, pins) ==
    CASE cri = 0 -> [frame EXCEPT !.first_roll_pins = pins]
      [] cri = 1 -> [frame EXCEPT !.second_roll_pins = Some(pins)]
      [] OTHER   -> frame

\* a propagation that tags the current frame instead of the next one
PropagateBonus_current_frame(fs, cfi, bonus) == [fs EXCEPT ![cfi].bonus = bonus]

\* `if let Some(i) = next_frame_index { self.frames[i].bonus = bonus; }`
PropagateBonus(fs, cfi, bonus) ==
    LET nfi == next_frame_index(cfi) IN
    IF nfi # None THEN [fs EXCEPT ![nfi[1]].bonus = bonus] ELSE fs

\* cursor advancement that grants the fill ball after any second roll of the
\* tenth frame
set_next_indices_always_fill(cfi, cri, bonus) ==
    CASE cri = 0 ->
            IF bonus # "Strike" THEN <<cfi, 1>> ELSE <<cfi + 1, 0>>
      [] cri = 1 ->
            IF cfi # LastFrame THEN <<cfi + 1, 0>> ELSE <<cfi, 2>>
      [] OTHER -> <<cfi, cri>>

\* cursor advancement that never ends a frame on its first roll
set_next_indices_no_strike_advance(cfi, cri, bonus) ==
    CASE cri = 0 -> <<cfi, 1>>
      [] cri = 1 ->
            IF cfi # LastFrame THEN <<cfi + 1, 0>>
            ELSE IF bonus # "None" THEN <<cfi, 2>> ELSE <<cfi, cri>>
      [] OTHER -> <<cfi, cri>>

\* cursor advancement without the tenth-frame case
set_next_indices_no_tenth(cfi, cri, bonus) ==
    CASE cri = 0 ->
            IF bonus # "Strike" THEN <<cfi, 1>> ELSE <<cfi + 1, 0>>
      [] cri = 1 -> <<cfi + 1, 0>>
      [] OTHER -> <<cfi, cri>>

\* cursor advancement that never grants the fill ball
set_next_indices_no_spare_fill(cfi, cri, bonus) ==
    CASE cri = 0 ->
            IF bonus # "Strike" THEN <<cfi, 1>> ELSE <<cfi + 1, 0>>
      [] cri = 1 ->
            IF cfi # LastFrame THEN <<cfi + 1, 0>> ELSE <<cfi, cri>>
      [] OTHER -> <<cfi, cri>>

\* cursor advancement that grants a fill ball after a spare in any frame
set_next_indices_fill_any_frame(cfi, cri, bonus) ==
    CASE cri = 0 ->
            IF bonus # "Strike" THEN <<cfi, 1>> ELSE <<cfi + 1, 0>>
      [] cri = 1 ->
            IF bonus # "None" THEN <<cfi, 2>>
            ELSE IF cfi # LastFrame THEN <<cfi + 1, 0>> ELSE <<cfi, cri>>
      [] OTHER -> <<cfi, cri>>

\* cursor advancement that resets the roll index but forgets the frame index
set_next_indices_same_frame(cfi, cri, bonus) ==
    CASE cri = 0 ->
            IF bonus # "Strike" THEN <<cfi, 1>> ELSE <<cfi + 1, 0>>
      [] cri = 1 ->
            IF cfi # LastFrame THEN <<cfi, 0>>
            ELSE IF bonus # "None" THEN <<cfi, 2>> ELSE <<cfi, cri>>
      [] OTHER -> <<cfi, cri>>

\* Game::set_next_indices, returning <<current_frame_index, current_roll_index>>
set_next_indices(cfi, cri, bonus) ==
    CASE cri = 0 ->
            IF bonus # "Strike" THEN <<cfi, 1>> ELSE <<cfi + 1, 0>>
      [] cri = 1 ->
            IF cfi # LastFrame THEN <<cfi + 1, 0>>
            ELSE IF bonus # "None" THEN <<cfi, 2>> ELSE <<cfi, cri>>
      [] OTHER -> <<cfi, cri>>

\* the caller's view of a finished game: the tenth frame has its two rolls and
\* earned no fill ball, or the fill ball has been rolled
Finished ==
    /\ current_frame_index = LastFrame
    /\ \/ current_roll_index = 1 /\ frames[LastFrame].second_roll_pins # None
       \/ current_roll_index = 2 /\ bonus_tenth_frame_third_roll # None

\* one call of Game::roll(pins)
Roll(pins) ==
    /\ ~panicked
    /\ rolls' = Append(rolls, pins)
    /\ returned' = None
    /\ extra_rolls' = IF Finished \/ extra_rolls > 0 THEN extra_rolls + 1 ELSE 0
    /\ IF current_frame_index >= NumFrames
       THEN \* `&mut self.frames[self.current_frame_index]` is out of bounds
            /\ panicked' = TRUE
            /\ UNCHANGED game
       ELSE LET frame == frames[current_frame_index]
                bonus == RollBonus(frame, current_roll_index, pins)
                written == [frames EXCEPT ![current_frame_index] =
                               WriteRoll(frame, current_roll_index, pins)]
                next == set_next_indices(current_frame_index, current_roll_index, bonus)
            IN  /\ frames' = PropagateBonus(written, current_frame_index, bonus)
                /\ bonus_tenth_frame_third_roll' =
                      IF current_roll_index = 2 THEN Some(pins)
                      ELSE bonus_tenth_frame_third_roll
                /\ current_frame_index' = next[1]
                /\ current_roll_index' = next[2]
                /\ UNCHANGED panicked

\* a score() that consumes the bonus tags it has counted
ScoreCall_consumes_bonus ==
    /\ ~panicked
    /\ returned' = Some(GameScore)
    /\ frames' = [i \in FrameIdx |-> [frames[i] EXCEPT !.bonus = "None"]]
    /\ UNCHANGED <<current_frame_index, current_roll_index,
                   bonus_tenth_frame_third_roll, panicked, rolls, opening,
                   free_rolls, extra_rolls>>

\* one call of Game::score(): `&self`, returns the total
ScoreCall ==
    /\ ~panicked
    /\ returned' = Some(GameScore)
    /\ UNCHANGED <<game, panicked, rolls, opening, free_rolls, extra_rolls>>

\* ------------------------------------------------------------------ callers
\* Game::default()
Init ==
    /\ frames = [i \in FrameIdx |-> DefaultFrame]
    /\ current_frame_index = 0
    /\ current_roll_index = 0
    /\ bonus_tenth_frame_third_roll = None
    /\ panicked = FALSE
    /\ rolls = <<>>
    /\ opening = "open"
    /\ free_rolls = 0
    /\ extra_rolls = 0
    /\ returned = None

\* the caller opens the game with open frames of FillFirst, FillSecond
WarmUpRoll ==
    /\ opening = "open"
    /\ ~Finished
    /\ Roll(IF current_roll_index = 0 THEN FillFirst ELSE FillSecond)
    /\ UNCHANGED <<opening, free_rolls>>

\* and may end its opening with the spare SpareFirst, SpareSecond
WarmUpSpare ==
    /\ ~Finished
    /\ IF opening = "open"
       THEN /\ current_roll_index = 0
            /\ Roll(SpareFirst)
            /\ opening' = "spare"
       ELSE /\ opening = "spare"
            /\ Roll(SpareSecond)
            /\ opening' = "done"
    /\ UNCHANGED free_rolls

\* or with a strike
WarmUpStrike ==
    /\ opening = "open"
    /\ ~Finished
    /\ current_roll_index = 0
    /\ Roll(AllPins)
    /\ opening' = "done"
    /\ UNCHANGED free_rolls

\* then rolls any pin counts, from a frame boundary on
FreeRoll ==
    /\ opening \in {"open", "done"}
    /\ opening = "open" => current_roll_index = 0
    /\ free_rolls < MaxFreeRolls
    /\ \E pins \in Pins : Roll(pins)
    /\ opening' = "done"
    /\ free_rolls' = free_rolls + 1

Next == WarmUpRoll \/ WarmUpSpare \/ WarmUpStrike \/ FreeRoll \/ ScoreCall

Spec == Init /\ [][Next]_vars

\* a caller that plays whole games of strikes and misses and stops at the end
StrikesRoll ==
    /\ ~Finished
    /\ \E pins \in StrikePins : Roll(pins)
    /\ UNCHANGED <<opening, free_rolls>>

NextStrikes == StrikesRoll \/ ScoreCall

SpecStrikes == Init /\ [][NextStrikes]_vars

\* ------------------------------------------------------- roll-history helpers
RECURSIVE SumRolls(_)
\* the pins of the first k rolls, added up
SumRolls(k) == IF k = 0 THEN 0 ELSE SumRolls(k - 1) + rolls[k]

\* the first n frames were open frames of two rolls: no strike, no spare
OpenPrefix(n) ==
    /\ Len(rolls) >= 2 * n
    /\ \A i \in 0..(n - 1) :
          /\ rolls[2 * i + 1] \in 0..(AllPins - 1)
          /\ rolls[2 * i + 1] + rolls[2 * i + 2] # AllPins

\* every roll so far belongs to an open frame (the last frame may have one roll)
AllOpen ==
    /\ Len(rolls) <= 2 * NumFrames
    /\ \A k \in 1..Len(rolls) :
          IF k % 2 = 1 THEN rolls[k] \in 0..(AllPins - 1)
          ELSE rolls[k - 1] + rolls[k] # AllPins

\* the pin count of the roll() call a step makes
LastPins == rolls'[Len(rolls')]

\* a step that is a roll() call
IsRollStep == rolls' # rolls

\* a step that is a score() call
IsScoreStep == rolls' = rolls /\ returned' # None

\* -------------------------------------------------------------------- claims
\* C1: twelve consecutive roll(10) calls on a fresh game all complete, and
\* score() afterwards returns 300.
C1_PerfectGame ==
    (Len(rolls) <= 12 /\ \A i \in 1..Len(rolls) : rolls[i] = AllPins)
        => /\ ~panicked
           /\ Len(rolls) = 12 => GameScore = 300

\* C2: roll(pins) is total: with pins in 0..10 and no roll made after the game
\* is finished, every call completes (the frame it writes to exists).
C2_RollTotal == extra_rolls = 0 => ~panicked

\* C3: a strike or a spare in the tenth frame moves the cursor to (9, 2), and
\* the roll made there is stored in bonus_tenth_frame_third_roll and added to
\* score().
C3_FillBallGranted ==
    [][(IsRollStep /\ extra_rolls' = 0) =>
          /\ (/\ current_frame_index = LastFrame
              /\ \/ current_roll_index = 0 /\ LastPins = AllPins
                 \/ /\ current_roll_index = 1
                    /\ frames[LastFrame].first_roll_pins + LastPins = AllPins)
                => (current_frame_index' = LastFrame /\ current_roll_index' = 2)
          /\ (current_frame_index = LastFrame /\ current_roll_index = 2)
                => /\ bonus_tenth_frame_third_roll' = Some(LastPins)
                   /\ GameScore' = GameScore + LastPins]_vars

\* C4: after n open frames (0 <= n <= 7, total pins S), a strike and then a
\* frame with rolls b, c (b in 0..9, b + c <= 10), score() is S + 10 + 2*b
\* after b and S + 10 + 2*(b + c) after c.
C4_StrikeBonus ==
    \A n \in 0..7 :
        (/\ Len(rolls) \in {2 * n + 2, 2 * n + 3}
         /\ OpenPrefix(n)
         /\ rolls[2 * n + 1] = AllPins
         /\ rolls[2 * n + 2] \in 0..(AllPins - 1)
         /\ Len(rolls) = 2 * n + 3 => rolls[2 * n + 2] + rolls[2 * n + 3] <= AllPins)
        => GameScore = SumRolls(2 * n) + 10
                       + 2 * (SumRolls(Len(rolls)) - SumRolls(2 * n + 1))

C4_Witness ==
    /\ rolls = <<5, 3, 10, 2, 5>>
    /\ GameScore = 32

\* C5 as stated: after n open frames (0 <= n <= 7, total pins S), a spare
\* (a, 10 - a) and then rolls b, c with b in 0..10, score() is S + 10 + 2*b
\* after b and S + 10 + 2*b + c after c.
C5_SpareBonusAnyB ==
    \A n \in 0..7 :
        (/\ Len(rolls) \in {2 * n + 3, 2 * n + 4}
         /\ OpenPrefix(n)
         /\ rolls[2 * n + 1] \in 0..(AllPins - 1)
         /\ rolls[2 * n + 1] + rolls[2 * n + 2] = AllPins)
        => GameScore = SumRolls(2 * n) + 10 + 2 * rolls[2 * n + 3]
                       + (IF Len(rolls) = 2 * n + 4 THEN rolls[2 * n + 4] ELSE 0)

\* C5 amended: the same, where the value after c is claimed only when c is the
\* second roll of the frame after the spare, i.e. b is in 0..9.
C5_SpareBonus ==
    \A n \in 0..7 :
        (/\ Len(rolls) \in {2 * n + 3, 2 * n + 4}
         /\ OpenPrefix(n)
         /\ rolls[2 * n + 1] \in 0..(AllPins - 1)
         /\ rolls[2 * n + 1] + rolls[2 * n + 2] = AllPins
         /\ Len(rolls) = 2 * n + 4 => rolls[2 * n + 3] \in 0..(AllPins - 1))
        => GameScore = SumRolls(2 * n) + 10 + 2 * rolls[2 * n + 3]
                       + (IF Len(rolls) = 2 * n + 4 THEN rolls[2 * n + 4] ELSE 0)

C5_Witness ==
    /\ rolls = <<7, 3, 5, 2>>
    /\ GameScore = 22

\* C6: while every frame rolled so far is open (at most 20 rolls, no strike,
\* no spare), score() is the plain sum of the pins rolled.
C6_OpenFramesSum == AllOpen => GameScore = SumRolls(Len(rolls))

C6_Witness ==
    /\ Len(rolls) = 2 * NumFrames
    /\ free_rolls > 0
    /\ AllOpen
    /\ GameScore = SumRolls(Len(rolls))
    /\ GameScore > 0

\* C7: a roll made on a game that is not yet finished never lowers score().
C7_Monotonic ==
    [][(IsRollStep /\ extra_rolls' = 0) => GameScore' >= GameScore]_vars

C7_Witness ==
    /\ extra_rolls = 0
    /\ ~panicked
    /\ Len(rolls) = 2 * NumFrames + 1
    /\ bonus_tenth_frame_third_roll = Some(AllPins)
    /\ GameScore = SumRolls(Len(rolls))

\* C8: score() changes no field of the game, and a second score() with no
\* roll() in between returns the same value.
C8_ScoreReadOnly ==
    [][IsScoreStep =>
          /\ UNCHANGED game
          /\ returned' = Some(GameScore)
          /\ returned # None => returned' = returned]_vars

C8_Witness ==
    /\ returned # None
    /\ returned = Some(GameScore)
    /\ \E i \in FrameIdx : frames[i].bonus # "None" /\ frames[i].first_roll_pins > 0

\* C9: a fresh game has cursor (0, 0), no bonus tags, no fill ball and
\* score() = 0.
C9_FreshGame ==
    rolls = <<>> =>
        /\ current_frame_index = 0
        /\ current_roll_index = 0
        /\ \A i \in FrameIdx : frames[i].bonus = "None"
        /\ bonus_tenth_frame_third_roll = None
        /\ GameScore = 0
        /\ returned # None => returned = Some(0)

C9_Witness ==
    /\ rolls = <<>>
    /\ returned = Some(0)

\* C10: during normal play (no roll after the game is finished)
\* current_frame_index is at most 9.
C10_FrameIndexAtMostNine ==
    extra_rolls = 0 => current_frame_index <= LastFrame

\* C11: bonus_tenth_frame_third_roll is present only if the cursor is (9, 2)
\* and frame 9 holds a strike or a spare.
C11_FillBallOnlyAfterBonus ==
    bonus_tenth_frame_third_roll # None =>
        /\ current_frame_index = LastFrame
        /\ current_roll_index = 2
        /\ \/ frames[LastFrame].first_roll_pins = AllPins
           \/ /\ frames[LastFrame].second_roll_pins # None
              /\ frames[LastFrame].first_roll_pins
                    + frames[LastFrame].second_roll_pins[1] = AllPins

C11_Witness ==
    /\ bonus_tenth_frame_third_roll # None
    /\ extra_rolls = 0
    /\ GameScore > SumRolls(Len(rolls) - 1)

\* the tag the outcome of a completed frame calls for
TagFor(frame) ==
    IF frame.first_roll_pins = AllPins THEN "Strike"
    ELSE IF /\ frame.second_roll_pins # None
            /\ frame.first_roll_pins + frame.second_roll_pins[1] = AllPins
         THEN "Spare"
         ELSE "None"

\* C12: frames[0] has no tag; for k in 1..9 with frame k-1 complete, frames[k]
\* is tagged Strike exactly when frame k-1's first roll was 10, Spare exactly
\* when frame k-1's two rolls sum to 10, and not at all otherwise; frames
\* beyond current_frame_index + 1 have no tag.
C12_TagsMirrorPreviousFrame ==
    /\ frames[0].bonus = "None"
    /\ \A k \in 1..LastFrame :
          current_frame_index >= k => frames[k].bonus = TagFor(frames[k - 1])
    /\ \A k \in FrameIdx :
          k > current_frame_index + 1 => frames[k].bonus = "None"

C12_Witness ==
    /\ \E k \in FrameIdx : frames[k].bonus = "Spare"
    /\ \E k \in FrameIdx : frames[k].bonus = "Strike"
    /\ \E k \in 1..LastFrame : current_frame_index > k /\ frames[k].bonus = "None"

Cursor == <<current_frame_index, current_roll_index>>

\* lexicographic order on cursors
CursorLess(a, b) == a[1] < b[1] \/ (a[1] = b[1] /\ a[2] < b[2])

C15_StepFromRollOne ==
    [][(IsRollStep /\ current_roll_index = 1) =>
          /\ frames'[current_frame_index].second_roll_pins = Some(LastPins)
          /\ Cursor' =
                IF current_frame_index # LastFrame
                THEN <<current_frame_index + 1, 0>>
                ELSE IF frames[LastFrame].first_roll_pins + LastPins = AllPins
                     THEN <<LastFrame, 2>>
                     ELSE <<LastFrame, 1>>]_vars

C15_Witness ==
    /\ extra_rolls = 0
    /\ free_rolls >= 2
    /\ Cursor = <<LastFrame, 2>>
    /\ frames[LastFrame].second_roll_pins = Some(rolls[Len(rolls)])

\* the game finished at cursor (9, 1): the tenth frame has its two rolls and
\* they made no spare
FinishedOpen ==
    /\ Cursor = <<LastFrame, 1>>
    /\ frames[LastFrame].second_roll_pins # None

\* C16 as stated: once the game is finished at cursor (9, 1), a further
\* roll(pins) leaves the cursor unchanged.
C16_CursorStaysAfterFinish ==
    [][(IsRollStep /\ FinishedOpen) => Cursor' = Cursor]_vars

\* C16 amended: once the game is finished at cursor (9, 1), a further
\* roll(pins) leaves the cursor unchanged unless frame 9's first_roll_pins
\* + pins = 10, and then the cursor becomes (9, 2).
C16_CursorAfterFinish ==
    [][(IsRollStep /\ FinishedOpen) =>
          Cursor' = IF frames[LastFrame].first_roll_pins + LastPins = AllPins
                    THEN <<LastFrame, 2>>
                    ELSE <<LastFrame, 1>>]_vars

C16_Witness ==
    /\ extra_rolls = 1
    /\ Cursor = <<LastFrame, 2>>
    /\ bonus_tenth_frame_third_roll = None

\* C17: a roll(pins) at cursor (9, 2) writes only
\* bonus_tenth_frame_third_roll: the cursor stays (9, 2) and the ten frames
\* keep their pins and tags.
C17_FillBallWritesOnlyThirdRoll ==
    [][(IsRollStep /\ Cursor = <<LastFrame, 2>>) =>
          /\ bonus_tenth_frame_third_roll' = Some(LastPins)
          /\ Cursor' = Cursor
          /\ frames' = frames]_vars

C17_Witness ==
    /\ Cursor = <<LastFrame, 2>>
    /\ Len(rolls) = 2 * NumFrames + 2
    /\ extra_rolls = 1
    /\ bonus_tenth_frame_third_roll = Some(rolls[Len(rolls)])

\* C18: current_roll_index is 0, 1 or 2, and it is 2 only when
\* current_frame_index = 9.
C18_RollIndexRange ==
    /\ current_roll_index \in {0, 1, 2}
    /\ current_roll_index = 2 => current_frame_index = LastFrame

C18_Witness ==
    /\ current_roll_index = 2
    /\ current_frame_index = LastFrame

StayingRoll ==
    \/ /\ Cursor = <<LastFrame, 1>>
       /\ frames[LastFrame].first_roll_pins + LastPins # AllPins
    \/ Cursor = <<LastFrame, 2>>
    \/ current_frame_index = NumFrames

====
